---- MODULE Spec2Model ----
(***************************************************************************)
(* A model of scripts/classify.py: main() and classify_image(), the        *)
(* supervised land-cover classification pipeline.                          *)
(*                                                                         *)
(* The pipeline is sequential; pc is the position in main/classify_image.  *)
(* An exception raised anywhere below main's try block unwinds to the one  *)
(* handler of main in the same step (operator Raise), except inside the    *)
(* per-point try block of the sampling loop, which drops the point.        *)
(*                                                                         *)
(* What the external services answer (the STAC item, rasterio reads, the   *)
(* reprojection of the region of interest, the predictions of the fitted   *)
(* forest) is drawn from small sets, in Init for what exists before the    *)
(* run (the config file, the STAC item, the rasters' georeferencing) and   *)
(* in the actions for what is answered during it.                          *)
(***************************************************************************)
EXTENDS Integers, Sequences, FiniteSets, TLC

(***************************************************************************)
(* Bounds of the model.                                                    *)
(***************************************************************************)
\* longest training_data list of a config
MaxPoints == 3
\* how many training points of one run may sample other than nominally
\* (a failed band read, no coverage, an odd pixel)
MaxAnomalies == 1
\* how many pixels of a (flattened) raster array the model keeps the values of
MaxPix == 2

(***************************************************************************)
(* Program constants.                                                      *)
(***************************************************************************)
\* classify.py:278
MAX_DIM == 1000
\* classify.py:113, 181, 186, 189
MinBands == 4
\* classify.py:226
MinSamples == 3
\* np.uint8 (classify.py:356): values are kept modulo 2^8
Uint8Mod == 256

\* classify.py:90-97, in the dict's insertion order
band_keys == <<"red", "green", "blue", "nir", "swir16", "swir22">>

Bands == {band_keys[k] : k \in 1..Len(band_keys)}

NoBands == [b \in {} |-> 0]

Min(a, b) == IF a <= b THEN a ELSE b

Max(a, b) == IF a >= b THEN a ELSE b

\* Python's dict.get(key, default)
Get(d, key, default) == IF key \in DOMAIN d THEN d[key] ELSE default

VARIABLES
  pc,               \* position in main / classify_image
  argv,             \* sys.argv[1:], the config path or nothing
  config_file,      \* what the config path holds: "ok", "unreadable", "bad_json", "no_field"
  training_data,    \* config['training_data'], a sequence of points
  include_indices,  \* config.get('include_indices', True)
  stac_item,        \* the primary STAC item as served: assets, href kind, whether pc.sign works
  scene,            \* georeferencing of the primary item's band rasters
  roi,              \* the region of interest's corners reprojected to the image CRS (xs, ys)
  band_urls,        \* classify_image's band_urls dict
  feature_matrix,   \* list of feature vectors
  labels,           \* list of labels, parallel to feature_matrix
  sampled_classes,  \* set of labels
  i,                \* index into training_data of the point being sampled
  band_values,      \* the current point's band_values dict
  budget,           \* how many more points may sample other than nominally (a model bound)
  fitted,           \* whether clf.fit has run
  clf_classes,      \* the fitted forest's classes_
  windows,          \* the clamped read window of each band read so far
  out_width,        \* output raster width (None is modelled as -1)
  out_height,
  band_data,        \* band name -> resampled array
  pixels,           \* the feature rows of the pixels, as a cycle (see Period)
  classification,   \* the uint8 classification array, flattened, as a cycle
  raster_opened,    \* whether output_path has been opened for writing
  raster,           \* what was written to output_path
  stdout,           \* records printed to standard output
  exit_code,        \* -1 while running
  rasters_read,     \* history: whether any raster has been opened for reading
  sampled_any,      \* history: whether sample_point_from_urls has been called
  searched_any,     \* history: whether search_stac_for_point has been called
  reads,            \* history of the current point: <<scene, band>> -> times its raster was opened
  searches          \* history of the current point: calls of search_stac_for_point

vars == <<pc, argv, config_file, training_data, include_indices, stac_item, scene, roi,
          band_urls, feature_matrix, labels, sampled_classes, i, band_values, budget,
          fitted, clf_classes, windows, out_width, out_height, band_data, pixels,
          classification, raster_opened, raster, stdout, exit_code,
          rasters_read, sampled_any, searched_any, reads, searches>>

(***************************************************************************)
(* main(): the one exception handler (classify.py:443-449).                *)
(***************************************************************************)
\* a handler that prints the error alone
ErrorRecord_NoTrace(exc) == [error |-> exc]

\* what the handler prints: json.dumps({'error': str(e), 'traceback': ...})
ErrorRecord(exc) == [error |-> exc, traceback |-> "Traceback (most recent call last)"]

\* an exception that reaches main's handler: the record is printed, sys.exit(1)
Raise(exc) ==
  /\ stdout' = Append(stdout, ErrorRecord(exc))
  /\ exit_code' = 1
  /\ pc' = "exited"

\* the variables of classify_image proper
run_vars == <<band_urls, feature_matrix, labels, sampled_classes, i, band_values, budget,
              fitted, clf_classes, windows, out_width, out_height, band_data, pixels,
              classification, raster_opened, raster, rasters_read, sampled_any,
              searched_any, reads, searches>>

\* the inputs, fixed for a run
input_vars == <<argv, config_file, training_data, include_indices, stac_item, scene, roi>>

\* classify.py:430-434
MainStart ==
  /\ pc = "main"
  /\ IF Len(argv) < 1
       THEN /\ stdout' = Append(stdout, [error |-> "Config file path required"])
            /\ exit_code' = 1
            /\ pc' = "exited"
       ELSE /\ pc' = "load_config"
            /\ UNCHANGED <<stdout, exit_code>>
  /\ UNCHANGED <<input_vars, run_vars>>

\* classify.py:436-438: the config file is opened and parsed
LoadConfig ==
  /\ pc = "load_config"
  /\ CASE config_file = "unreadable" -> Raise("FileNotFoundError")
       [] config_file = "bad_json"   -> Raise("JSONDecodeError")
       [] OTHER -> pc' = "fetch_item" /\ UNCHANGED <<stdout, exit_code>>
  /\ UNCHANGED <<input_vars, run_vars>>

\* classify.py:71-87: the config's fields are read (a required field that is
\* missing raises KeyError) and the primary STAC item is fetched
FetchItem ==
  /\ pc = "fetch_item"
  /\ CASE config_file = "no_field" -> Raise("KeyError")
       [] ~stac_item.served        -> Raise("URLError")
       [] OTHER -> pc' = "resolve" /\ UNCHANGED <<stdout, exit_code>>
  /\ UNCHANGED <<input_vars, run_vars>>

(***************************************************************************)
(* Band Resolver (classify.py:99-116, and 133-147 for a fallback item).    *)
(***************************************************************************)
\* One asset's URL: signed when the href is a Planetary Computer blob URL and
\* pc.sign succeeds, the href itself otherwise.
SignedUrl(item, b) ==
  IF item.blob
    THEN IF item.sign_ok
           THEN [href |-> b, blob |-> TRUE, signed |-> TRUE]
           ELSE [href |-> b, blob |-> TRUE, signed |-> FALSE]
    ELSE [href |-> b, blob |-> FALSE, signed |-> FALSE]

\* a resolver that leaves out a band whose URL could not be signed
ResolveBandUrls_DropUnsigned(item) ==
  [b \in (IF item.blob /\ ~item.sign_ok THEN {} ELSE Bands \cap item.assets) |->
     SignedUrl(item, b)]

\* classify.py:99-111
ResolveBandUrls(item) == [b \in (Bands \cap item.assets) |-> SignedUrl(item, b)]

\* classify.py:99-116
ResolveBands ==
  /\ pc = "resolve"
  /\ LET urls == ResolveBandUrls(stac_item)
     IN  IF Cardinality(DOMAIN urls) < MinBands
           THEN Raise("ValueError: Not enough bands found") /\ band_urls' = urls
           ELSE /\ band_urls' = urls
                /\ pc' = "open_primary"
                /\ UNCHANGED <<stdout, exit_code>>
  /\ UNCHANGED <<input_vars, feature_matrix, labels, sampled_classes, i, band_values,
                 budget, fitted, clf_classes, windows, out_width, out_height,
                 band_data, pixels, classification, raster_opened, raster, rasters_read,
                 sampled_any, searched_any, reads, searches>>

\* where the loop goes after the point at index k
AfterPoint(k) == IF k + 1 > Len(training_data) THEN "train" ELSE "sample_primary"

\* classify.py:121-131: the empty training set, and the primary image's metadata
OpenPrimary ==
  /\ pc = "open_primary"
  /\ IF "nir" \in DOMAIN band_urls
       THEN /\ rasters_read' = TRUE
            /\ pc' = AfterPoint(0)
            /\ i' = 1
            /\ UNCHANGED <<stdout, exit_code>>
       ELSE /\ Raise("KeyError: 'nir'")
            /\ UNCHANGED <<rasters_read, i>>
  /\ feature_matrix' = <<>>
  /\ labels' = <<>>
  /\ sampled_classes' = {}
  /\ UNCHANGED <<input_vars, band_urls, band_values, budget, fitted, clf_classes,
                 windows, out_width, out_height, band_data, pixels, classification,
                 raster_opened, raster, sampled_any, searched_any, reads, searches>>

(***************************************************************************)
(* Point Sampler and Scene Search (classify.py:149-188).                   *)
(***************************************************************************)
\* Pixel values the rasters hold at a training point.  ProfPole is a pixel at
\* which EVI's denominator nir + 6*red - 7.5*blue + 10000 is exactly 0.
ProfVeg == [red |-> 400, green |-> 600, blue |-> 300, nir |-> 3000, swir16 |-> 1500,
            swir22 |-> 800]

ProfPole == [red |-> 0, green |-> 600, blue |-> 2000, nir |-> 5000, swir16 |-> 1500,
             swir22 |-> 800]

\* What the reads of one point give: the bands that give no value (the open or
\* the read raised, or the point is outside the band's bounds: classify.py:158-160,
\* 163, 167-168) and the pixel the other bands hold.
SampleOutcomes ==
  { [skipped |-> {}, prof |-> ProfVeg],
    [skipped |-> {"swir22"}, prof |-> ProfVeg],
    [skipped |-> {"red", "green", "blue"}, prof |-> ProfVeg],
    [skipped |-> Bands, prof |-> ProfVeg],
    [skipped |-> {}, prof |-> ProfPole] }

\* classify.py:149-169: a value for every band of the dict that was not skipped
sample_point_from_urls(point_band_urls, skipped, prof) ==
  [b \in (DOMAIN point_band_urls \ skipped) |-> prof[b]]

Nominal(o) == o.skipped = {} /\ o.prof = ProfVeg

\* What search_stac_for_point returns (classify.py:18-54): a first feature, or None
\* when the request or the parse raised (caught at line 51) or nothing was found.
\* A feature whose assets are not objects makes get_band_urls_for_item raise.
\* scene names the image the feature describes.
SearchResults ==
  { [found |-> FALSE, assets |-> {}, blob |-> FALSE, sign_ok |-> TRUE, malformed |-> FALSE,
     scene |-> "none"],
    [found |-> TRUE, assets |-> Bands, blob |-> FALSE, sign_ok |-> TRUE, malformed |-> FALSE,
     scene |-> "alt"],
    [found |-> TRUE, assets |-> Bands, blob |-> TRUE, sign_ok |-> FALSE, malformed |-> FALSE,
     scene |-> "alt"],
    [found |-> TRUE, assets |-> {"red", "green", "blue"}, blob |-> FALSE, sign_ok |-> TRUE,
     malformed |-> FALSE, scene |-> "alt"],
    [found |-> TRUE, assets |-> Bands, blob |-> FALSE, sign_ok |-> TRUE, malformed |-> TRUE,
     scene |-> "alt"] }

\* classify.py:29-34: the query names the collection, a box around the point and a
\* cloud-cover limit, and nothing that excludes the primary item: the first feature
\* may be the primary image itself.
FoundBySearch(primary) ==
  SearchResults \cup
    { [found |-> TRUE, assets |-> primary.assets, blob |-> primary.blob,
       sign_ok |-> primary.sign_ok, malformed |-> FALSE, scene |-> "primary"] }

\* classify.py:152-154: sample_point_from_urls opens the raster of every band of the
\* dict it is given, once each; r counts the openings per image and band
Opened(r, scene_id, bands) ==
  [k \in DOMAIN r \cup ({scene_id} \X bands) |->
     (IF k \in DOMAIN r THEN r[k] ELSE 0) + (IF k \in {scene_id} \X bands THEN 1 ELSE 0)]

\* classify.py:133-147
get_band_urls_for_item(item) ==
  [b \in (Bands \cap item.assets) |->
     IF item.blob /\ item.sign_ok
       THEN [href |-> b, blob |-> TRUE, signed |-> TRUE]
       ELSE [href |-> b, blob |-> item.blob, signed |-> FALSE]]

loop_frame == <<input_vars, band_urls, fitted, clf_classes, windows, out_width, out_height,
                band_data, pixels, classification, raster_opened, raster, stdout, exit_code>>

\* classify.py:171-178: the next point is sampled from the primary image
SamplePrimary ==
  /\ pc = "sample_primary"
  /\ \E o \in SampleOutcomes :
       /\ Nominal(o) \/ budget > 0
       /\ budget' = IF Nominal(o) THEN budget ELSE budget - 1
       /\ band_values' = sample_point_from_urls(band_urls, o.skipped, o.prof)
       /\ pc' = IF Cardinality(DOMAIN band_values') < MinBands THEN "fallback" ELSE "build"
  /\ sampled_any' = TRUE
  /\ rasters_read' = TRUE
  /\ reads' = Opened(reads, "primary", DOMAIN band_urls)
  /\ UNCHANGED <<loop_frame, feature_matrix, labels, sampled_classes, i, searched_any,
                 searches>>

\* classify.py:181-187 (and the except of 222-224 when the item is malformed)
Fallback ==
  /\ pc = "fallback"
  /\ searched_any' = TRUE
  /\ \E item \in FoundBySearch(stac_item), o \in SampleOutcomes :
       IF ~item.found
         THEN /\ pc' = "build"
              /\ searches' = searches + 1
              /\ UNCHANGED <<band_values, i, reads>>
         ELSE IF item.malformed
           THEN /\ pc' = AfterPoint(i)
                /\ i' = i + 1
                /\ band_values' = NoBands
                /\ reads' = NoBands
                /\ searches' = 0
           ELSE LET alt_band_urls == get_band_urls_for_item(item)
                    sampled == Cardinality(DOMAIN alt_band_urls) >= MinBands
                IN  /\ pc' = "build"
                    /\ i' = i
                    /\ searches' = searches + 1
                    /\ band_values' =
                         IF sampled
                           THEN sample_point_from_urls(alt_band_urls, o.skipped, o.prof)
                           ELSE band_values
                    /\ reads' =
                         IF sampled
                           THEN Opened(reads, item.scene, DOMAIN alt_band_urls)
                           ELSE reads
  /\ UNCHANGED <<loop_frame, feature_matrix, labels, sampled_classes, budget,
                 sampled_any, rasters_read>>

(***************************************************************************)
(* Feature Builder, per point (classify.py:189-224).                       *)
(***************************************************************************)
\* A spectral index num / (den + 1e-10) or num / den, kept as the exact fraction.
Index(num, den, eps) == [num |-> num, den |-> den, eps |-> eps]

\* twice the denominator of EVI, nir + 6*red - 7.5*blue + 10000
EviDen2(nir, red, blue) == 2 * nir + 12 * red - 15 * blue + 20000

\* classify.py:202-213; EVI = 2.5*(nir - red) / den is 5*(nir - red) / (2*den)
SpectralIndices(nir, red, green, blue, swir) ==
  << Index(nir - red, nir + red, TRUE),
     Index(green - nir, green + nir, TRUE),
     Index(swir - nir, swir + nir, TRUE),
     Index(5 * (nir - red), EviDen2(nir, red, blue), FALSE) >>

\* classify.py:191-198
BaseFeatures(bv) == [k \in 1..Len(band_keys) |-> Get(bv, band_keys[k], 0)]

\* a builder that appends the indices only when all their bands were sampled
PointFeatures_IndicesIfSampled(bv, with_indices) ==
  IF with_indices /\ {"nir", "red", "green", "blue", "swir16"} \subseteq DOMAIN bv
    THEN BaseFeatures(bv) \o SpectralIndices(bv["nir"], bv["red"], bv["green"], bv["blue"],
                                             bv["swir16"])
    ELSE BaseFeatures(bv)

\* classify.py:191-213
PointFeatures(bv, with_indices) ==
  IF with_indices
    THEN BaseFeatures(bv) \o SpectralIndices(Get(bv, "nir", 0), Get(bv, "red", 0),
                                             Get(bv, "green", 0), Get(bv, "blue", 0),
                                             Get(bv, "swir16", 0))
    ELSE BaseFeatures(bv)

\* classify.py:211: Python's float division raises ZeroDivisionError on a zero divisor
PointRaises(bv, with_indices) ==
  with_indices /\ EviDen2(Get(bv, "nir", 0), Get(bv, "red", 0), Get(bv, "blue", 0)) = 0

\* classify.py:189: whether the point's sample is kept
EnoughBands(bv) == Cardinality(DOMAIN bv) >= MinBands

\* classify.py:189-224: the point is appended, or dropped (too few bands, or the
\* except of line 222 caught an error of the feature computation)
BuildFeatures ==
  /\ pc = "build"
  /\ IF EnoughBands(band_values) /\ ~PointRaises(band_values, include_indices)
       THEN /\ feature_matrix' = Append(feature_matrix,
                                        PointFeatures(band_values, include_indices))
            /\ labels' = Append(labels, training_data[i].label)
            /\ sampled_classes' = sampled_classes \cup {training_data[i].label}
       ELSE UNCHANGED <<feature_matrix, labels, sampled_classes>>
  /\ i' = i + 1
  /\ pc' = AfterPoint(i)
  /\ band_values' = NoBands
  /\ reads' = NoBands
  /\ searches' = 0
  /\ UNCHANGED <<loop_frame, budget, sampled_any, searched_any, rasters_read>>

(***************************************************************************)
(* Classifier Trainer (classify.py:226-252).                               *)
(***************************************************************************)
\* classify.py:226: whether the training set is too small to fit
TooFewSamples(matrix) == Len(matrix) < MinSamples

SeqRange(s) == {s[k] : k \in 1..Len(s)}

Train ==
  /\ pc = "train"
  /\ IF TooFewSamples(feature_matrix)
       THEN /\ Raise("ValueError: Not enough valid training samples")
            /\ UNCHANGED <<fitted, clf_classes>>
       ELSE /\ fitted' = TRUE
            /\ clf_classes' = SeqRange(labels)
            /\ pc' = "read_bands"
            /\ UNCHANGED <<stdout, exit_code>>
  /\ UNCHANGED <<input_vars, band_urls, feature_matrix, labels, sampled_classes, i,
                 band_values, budget, windows, out_width, out_height, band_data, pixels,
                 classification, raster_opened, raster, rasters_read, sampled_any,
                 searched_any, reads, searches>>

(***************************************************************************)
(* Raster Inference Engine: the read window (classify.py:259-318).         *)
(*                                                                         *)
(* A raster is north-up with square pixels: its left edge x0, its top edge *)
(* y1, its pixel size px and its size in pixels.  Coordinates are integers *)
(* and pixel sizes powers of two, so that every quotient rasterio computes *)
(* in floating point is exact; a pixel coordinate is kept as the fraction  *)
(* <<numerator, denominator>>.                                             *)
(***************************************************************************)
Raster(x0, y1, px, width, height) ==
  [x0 |-> x0, y1 |-> y1, px |-> px, width |-> width, height |-> height]

\* src.bounds
Bounds(g) == [left |-> g.x0, right |-> g.x0 + g.px * g.width,
              top |-> g.y1, bottom |-> g.y1 - g.px * g.height]

\* Python's int() of a fraction with a positive denominator: towards zero
PyInt(f) == IF f[1] >= 0 THEN f[1] \div f[2] ELSE -((-f[1]) \div f[2])

\* classify.py:270-274: the region of interest clipped to the nir raster's bounds
ClipToImage(r, src_bounds) ==
  [left   |-> Max(src_bounds.left, Min(r.xs[1], r.xs[2])),
   right  |-> Min(src_bounds.right, Max(r.xs[1], r.xs[2])),
   bottom |-> Max(src_bounds.bottom, Min(r.ys[1], r.ys[2])),
   top    |-> Min(src_bounds.top, Max(r.ys[1], r.ys[2]))]

\* rasterio.windows.from_bounds (classify.py:290) refuses bounds that run against
\* the transform (WindowError)
BoundsConsistent(w) == w.right - w.left >= 0 /\ w.top - w.bottom >= 0

\* rasterio.windows.from_bounds (classify.py:290): offsets and lengths in
\* fractional pixels of the raster g
from_bounds(w, g) ==
  [col_off |-> <<w.left - g.x0, g.px>>,
   row_off |-> <<g.y1 - w.top, g.px>>,
   width   |-> <<w.right - w.left, g.px>>,
   height  |-> <<w.top - w.bottom, g.px>>]

\* classify.py:293-298
ClampWindow(win, g) ==
  [col_off |-> Max(0, PyInt(win.col_off)),
   row_off |-> Max(0, PyInt(win.row_off)),
   width   |-> Min(PyInt(win.width), g.width - PyInt(win.col_off)),
   height  |-> Min(PyInt(win.height), g.height - PyInt(win.row_off))]

\* rasterio's Window refuses a negative width or height (ValueError)
WindowValid(win) == win.width >= 0 /\ win.height >= 0

\* floor(log2(x)) for x >= 1: the binary exponent of a double holding x
RECURSIVE FloorLog2(_)
FloorLog2(x) == IF x < 2 THEN 0 ELSE 1 + FloorLog2(x \div 2)

RECURSIVE Pow2(_)
Pow2(e) == IF e = 0 THEN 1 ELSE 2 * Pow2(e - 1)

\* 2^e modulo q
RECURSIVE Pow2Mod(_, _)
Pow2Mod(e, q) == IF e = 0 THEN 1 % q ELSE (2 * Pow2Mod(e - 1, q)) % q

\* classify.py:302-304 in IEEE doubles (53-bit significand, round to nearest):
\* whether int(n / scale), scale = m / MAX_DIM, is one less than n * MAX_DIM \div m.
\* That needs the exact quotient k = n * MAX_DIM / m to be an integer (any other
\* quotient is at least 1/m away from an integer) and scale to have been rounded
\* up; n / scale then lies below k by k * (MAX_DIM - r) / (m * 2^p), where
\* scale = M / 2^p with M the significand and r = (m * 2^p) % MAX_DIM, and it is
\* rounded to the double below k when that exceeds half the spacing below k.
RoundsShort(n, m) ==
  /\ m > MAX_DIM
  /\ n > 0
  /\ (n * MAX_DIM) % m = 0
  /\ LET k  == (n * MAX_DIM) \div m
         p  == 52 - FloorLog2(m \div MAX_DIM)
         r  == ((m % MAX_DIM) * Pow2Mod(p, MAX_DIM)) % MAX_DIM
         ek == FloorLog2(k)
         c  == IF k = Pow2(ek) THEN 2 ELSE 1
         x  == ek + p - 53
     IN  /\ 2 * r > MAX_DIM
         /\ IF x >= 0
              THEN k * (MAX_DIM - r) * c > m * Pow2(x)
              ELSE k * (MAX_DIM - r) * c * Pow2(-x) > m

\* a downscale whose factor looks at the width alone
Downscale_ByWidth(n, w, h) == (n * MAX_DIM) \div Max(w, MAX_DIM)

\* classify.py:302-304: int(n / scale) with scale = max(w/MAX_DIM, h/MAX_DIM, 1)
Downscale(n, w, h) ==
  LET m == Max(Max(w, h), MAX_DIM)
  IN  IF RoundsShort(n, m) THEN (n * MAX_DIM) \div m - 1 ELSE (n * MAX_DIM) \div m

\* classify.py:301-304, as (out_height, out_width)
OutShape(win) == <<Downscale(win.height, win.width, win.height),
                   Downscale(win.width, win.width, win.height)>>

\* the bands of a dict in its insertion order
BandOrder(urls) == SelectSeq(band_keys, LAMBDA b : b \in DOMAIN urls)

\* classify.py:286-298 for one band: its window, or the exception
BandWindow(w, g) ==
  IF ~BoundsConsistent(w)
    THEN [exc |-> "WindowError", win |-> ClampWindow(from_bounds(w, g), g)]
    ELSE IF ~WindowValid(ClampWindow(from_bounds(w, g), g))
      THEN [exc |-> "ValueError: negative window", win |-> ClampWindow(from_bounds(w, g), g)]
      ELSE [exc |-> "none", win |-> ClampWindow(from_bounds(w, g), g)]

\* the first band of the loop whose window raises, or 0
FirstFailure(order, w, sc) ==
  LET bad == {k \in 1..Len(order) : BandWindow(w, sc[order[k]]).exc # "none"}
  IN  IF bad = {} THEN 0 ELSE CHOOSE k \in bad : \A j \in bad : k <= j

\* Pixel values of the resampled window.
PixVeg == ProfVeg

PixNodata == [b \in Bands |-> 0]

PixNeg == [b \in Bands |-> IF b = "nir" THEN -100 ELSE 200]

PixelProfiles == {PixVeg, PixNodata, PixNeg}

\* An array of height * width entries is held as the cycle it repeats: entry k of
\* the array is At(cycle, k).  A cycle has at most MaxPix entries and never more
\* than the array, so every entry of the cycle occurs in the array.
Period(shape) == Min(shape[1] * shape[2], MaxPix)

\* entry k (from 1) of the flattened array held as cycle
At(cycle, k) == cycle[((k - 1) % Len(cycle)) + 1]

\* classify.py:259-318: per band the window (286-298) and the read (311-318); in
\* the first band's iteration the output shape and out_transform (301-308), where
\* rasterio's transform.from_bounds divides the extent by out_width and out_height
\* (ZeroDivisionError when one of them is 0, before any band is read)
ReadBands ==
  /\ pc = "read_bands"
  /\ LET w == ClipToImage(roi, Bounds(scene["nir"]))
         order == BandOrder(band_urls)
         fail == FirstFailure(order, w, scene)
         done == IF fail = 0 THEN Len(order) ELSE fail - 1
         shape == OutShape(BandWindow(w, scene[order[1]]).win)
     IN  IF done >= 1 /\ (shape[1] = 0 \/ shape[2] = 0)
           THEN /\ windows' = [b \in {order[1]} |-> BandWindow(w, scene[b]).win]
                /\ out_height' = shape[1]
                /\ out_width' = shape[2]
                /\ band_data' = NoBands
                /\ Raise("ZeroDivisionError: float division by zero")
           ELSE /\ windows' = [b \in {order[k] : k \in 1..done} |->
                                 BandWindow(w, scene[b]).win]
                /\ IF done >= 1
                     THEN out_height' = shape[1] /\ out_width' = shape[2]
                     ELSE UNCHANGED <<out_width, out_height>>
                /\ \E content \in [1..(IF done >= 1 THEN Period(shape) ELSE 0) ->
                                      PixelProfiles] :
                     band_data' = [b \in {order[k] : k \in 1..done} |->
                                     [shape |-> shape,
                                      data |-> [k \in 1..Period(shape) |-> content[k][b]]]]
                /\ IF fail = 0
                     THEN pc' = "classify" /\ UNCHANGED <<stdout, exit_code>>
                     ELSE Raise(BandWindow(w, scene[order[fail]]).exc)
  /\ rasters_read' = TRUE
  /\ UNCHANGED <<input_vars, band_urls, feature_matrix, labels, sampled_classes, i,
                 band_values, budget, fitted, clf_classes, pixels, classification,
                 raster_opened, raster, sampled_any, searched_any, reads, searches>>

(***************************************************************************)
(* Raster Inference Engine: features and classification of every pixel     *)
(* (classify.py:320-363).                                                  *)
(***************************************************************************)
\* classify.py:324
n_features(with_indices) == 6 + (IF with_indices THEN 4 ELSE 0)

\* classify.py:328-333: column j of cycle entry k, zeros for a band that was not read
BulkBand(bd, j, k) == IF band_keys[j] \in DOMAIN bd THEN bd[band_keys[j]].data[k] ELSE 0

\* classify.py:325-346: row k of the pixels array: allocated with n_features
\* columns, the six bands filled in, then the four indices when requested (numpy
\* divides by zero without raising)
BulkRow(bd, k, with_indices) ==
  LET ix == SpectralIndices(BulkBand(bd, 4, k), BulkBand(bd, 1, k), BulkBand(bd, 2, k),
                            BulkBand(bd, 3, k), BulkBand(bd, 5, k))
  IN  [j \in 1..n_features(with_indices) |->
         IF j <= 6 THEN BulkBand(bd, j, k) ELSE ix[j - 6]]

\* a mask that takes only nir = 0 for nodata
ValidPixel_NonZero(row) == row[4] # 0

\* classify.py:349: NIR > 0 indicates a valid pixel
ValidPixel(row) == row[4] > 0

\* assignment into the np.uint8 array of classify.py:356-360
ToUint8(v) == v % Uint8Mod

\* classify.py:356-360: 0 unless the pixel is valid, the prediction otherwise
ClassOf(row, prediction) == IF ValidPixel(row) THEN ToUint8(prediction) ELSE 0

\* classify.py:320-363.  The arrays have height * width >= 1 rows (an empty shape
\* ended the run at line 305).  clf.predict labels each row by its features alone,
\* so rows that are equal get the same class: predict is a function of the row.
Classify ==
  /\ pc = "classify"
  /\ LET shape == band_data["nir"].shape
         rows == [k \in 1..Period(shape) |-> BulkRow(band_data, k, include_indices)]
     IN  /\ pixels' = rows
         /\ \E predict \in [{rows[k] : k \in 1..Period(shape)} -> clf_classes] :
              classification' =
                [k \in 1..Period(shape) |-> ClassOf(rows[k], predict[rows[k]])]
         /\ pc' = "save"
  /\ UNCHANGED <<input_vars, band_urls, feature_matrix, labels, sampled_classes, i,
                 band_values, budget, fitted, clf_classes, windows, out_width,
                 out_height, band_data, raster_opened, raster, stdout, exit_code,
                 rasters_read, sampled_any, searched_any, reads, searches>>

(***************************************************************************)
(* Product Writer (classify.py:365-425) and the end of main (441).         *)
(***************************************************************************)
\* classify.py:366-397
Save ==
  /\ pc = "save"
  /\ raster_opened' = TRUE
  /\ raster' = [width |-> band_data["nir"].shape[2], height |-> band_data["nir"].shape[1],
                data |-> classification, nodata |-> 0]
  /\ pc' = "summarise"
  /\ UNCHANGED <<input_vars, band_urls, feature_matrix, labels, sampled_classes, i,
                 band_values, budget, fitted, clf_classes, windows, out_width,
                 out_height, band_data, pixels, classification, stdout, exit_code,
                 rasters_read, sampled_any, searched_any, reads, searches>>

\* classify.py:400: np.unique(classification[classification > 0]); the values of
\* the array are the values of its cycle
unique_classes(data) == {data[k] : k \in {j \in 1..Len(data) : data[j] > 0}}

\* classify.py:413-425
Result ==
  [success |-> TRUE,
   width |-> band_data["nir"].shape[2],
   height |-> band_data["nir"].shape[1],
   training_samples |-> Len(feature_matrix),
   classes_in_output |-> unique_classes(classification),
   classes_sampled |-> sampled_classes]

\* classify.py:399-425 and 441: the result is returned and printed; main returns
Finish ==
  /\ pc = "summarise"
  /\ stdout' = Append(stdout, Result)
  /\ exit_code' = 0
  /\ pc' = "exited"
  /\ UNCHANGED <<input_vars, run_vars>>

(***************************************************************************)
(* Inputs.                                                                 *)
(***************************************************************************)
\* training labels; 300 does not fit the uint8 raster
Labels == {1, 300}

Point(label) == [label |-> label]

TrainingSets == UNION {[1..n -> {Point(l) : l \in Labels}] : n \in 0..MaxPoints}

CanonicalTraining == <<Point(1), Point(300), Point(1)>>

AssetSets == { Bands,
               {"red", "green", "blue", "nir"},
               {"red", "green", "blue", "swir16", "swir22"},
               {"red", "green", "blue"} }

Item(assets, blob, sign_ok) ==
  [served |-> TRUE, assets |-> assets, blob |-> blob, sign_ok |-> sign_ok]

StacItems ==
  {Item(a, FALSE, TRUE) : a \in AssetSets} \cup
  {Item(a, TRUE, ok) : a \in AssetSets, ok \in BOOLEAN} \cup
  {[served |-> FALSE, assets |-> {}, blob |-> FALSE, sign_ok |-> TRUE]}

FourBandItem == Item({"red", "green", "blue", "nir"}, FALSE, TRUE)

CanonicalItem == Item(Bands, FALSE, TRUE)

\* a tile whose 10 m bands are 4 x 4 pixels and whose 20 m bands are 2 x 2
SceneTile ==
  [b \in Bands |-> IF b \in {"swir16", "swir22"}
                     THEN Raster(0, 8, 4, 2, 2) ELSE Raster(0, 8, 2, 4, 4)]

\* a tile larger than MAX_DIM on both axes
SceneLarge ==
  [b \in Bands |-> IF b \in {"swir16", "swir22"}
                     THEN Raster(0, 2156, 4, 1500, 539) ELSE Raster(0, 2156, 2, 3000, 1078)]

\* a tile whose swir16 raster starts to the right of the others and whose swir22
\* raster starts below them
SceneOffset ==
  [b \in Bands |-> CASE b = "swir16" -> Raster(4, 8, 4, 1, 2)
                     [] b = "swir22" -> Raster(0, 4, 4, 2, 1)
                     [] OTHER -> Raster(0, 8, 2, 4, 4)]

Scenes == {SceneTile, SceneLarge, SceneOffset}

\* x and y of the two corners of the region of interest, in the image CRS
CornerXs == { <<0, 8>>, <<8, 0>>, <<3, 5>>, <<-4, 3>>, <<5, 20>>, <<20, 30>>, <<-9, -1>>,
              <<2, 2>>, <<0, 6000>>, <<100, 2256>>, <<0, 2000>>, <<0, 2002>> }

CornerYs == { <<0, 8>>, <<8, 6>>, <<-4, 3>>, <<5, 20>>, <<20, 30>>,
              <<0, 2156>>, <<156, 2156>>, <<154, 2156>>, <<2150, 2156>> }

Rois == {[xs |-> x, ys |-> y] : x \in CornerXs, y \in CornerYs}

RoiPixel == [xs |-> <<3, 5>>, ys |-> <<8, 6>>]

InitRun ==
  /\ pc = "main"
  /\ band_urls = NoBands
  /\ feature_matrix = <<>>
  /\ labels = <<>>
  /\ sampled_classes = {}
  /\ i = 0
  /\ band_values = NoBands
  /\ fitted = FALSE
  /\ clf_classes = {}
  /\ windows = NoBands
  /\ out_width = -1
  /\ out_height = -1
  /\ band_data = NoBands
  /\ pixels = <<>>
  /\ classification = <<>>
  /\ raster_opened = FALSE
  /\ raster = [width |-> 0, height |-> 0, data |-> <<>>, nodata |-> 0]
  /\ stdout = <<>>
  /\ exit_code = -1
  /\ rasters_read = FALSE
  /\ sampled_any = FALSE
  /\ searched_any = FALSE
  /\ reads = NoBands
  /\ searches = 0

\* runs of main over every argument list and config file
InitMain ==
  /\ argv \in {<<>>, <<"config.json">>}
  /\ config_file \in {"ok", "unreadable", "bad_json", "no_field"}
  /\ training_data = CanonicalTraining
  /\ include_indices = TRUE
  /\ stac_item = CanonicalItem
  /\ scene = SceneTile
  /\ roi = RoiPixel
  /\ budget = 0

\* runs over every primary item
InitBands ==
  /\ argv = <<"config.json">>
  /\ config_file = "ok"
  /\ training_data = CanonicalTraining
  /\ include_indices \in BOOLEAN
  /\ stac_item \in StacItems
  /\ scene = SceneTile
  /\ roi = RoiPixel
  /\ budget = 0

\* runs over every training set, with anomalous samples
InitSampling ==
  /\ argv = <<"config.json">>
  /\ config_file = "ok"
  /\ training_data \in TrainingSets
  /\ include_indices \in BOOLEAN
  /\ stac_item \in {CanonicalItem, FourBandItem}
  /\ scene = SceneTile
  /\ roi = RoiPixel
  /\ budget = MaxAnomalies

\* runs over every scene and region of interest
InitWindows ==
  /\ argv = <<"config.json">>
  /\ config_file = "ok"
  /\ training_data = CanonicalTraining
  /\ include_indices = TRUE
  /\ stac_item = CanonicalItem
  /\ scene \in Scenes
  /\ roi \in Rois
  /\ budget = 0

Init == InitRun /\ (InitMain \/ InitBands \/ InitSampling \/ InitWindows)

Next ==
  \/ MainStart
  \/ LoadConfig
  \/ FetchItem
  \/ ResolveBands
  \/ OpenPrimary
  \/ SamplePrimary
  \/ Fallback
  \/ BuildFeatures
  \/ Train
  \/ ReadBands
  \/ Classify
  \/ Save
  \/ Finish

Spec == Init /\ [][Next]_vars

(***************************************************************************)
(* Properties.                                                             *)
(***************************************************************************)
\* the run ended through main's exception handler with this error
FailedWith(msg) ==
  pc = "exited" /\ exit_code = 1 /\ Len(stdout) >= 1 /\ stdout[Len(stdout)].error = msg

\* the sampling loop is over and line 226 has been evaluated
TrainingDecided ==
  i = Len(training_data) + 1 /\ pc \in {"read_bands", "classify", "save", "summarise", "exited"}

\* C1: whenever the accepted training set has fewer than 3 rows or fewer than 2
\* distinct labels, the run fails with the insufficient-data error, the classifier
\* is never fitted and the output raster is never opened for writing.
C1_InsufficientDataFails ==
  (TrainingDecided /\ (Len(feature_matrix) < 3 \/ Cardinality(SeqRange(labels)) < 2))
    => /\ ~fitted
       /\ ~raster_opened
       /\ pc = "exited" => FailedWith("ValueError: Not enough valid training samples")

\* C2: every pixel whose nir value is <= 0 has label 0 in the classification array
\* and in the written raster; a prediction is stored only where nir > 0.
C2_NodataPixelsAreZero ==
  /\ \A k \in 1..Len(classification) :
       /\ k \in 1..Len(pixels)
       /\ pixels[k][4] <= 0 => classification[k] = 0
       /\ classification[k] # 0 => pixels[k][4] > 0
  /\ raster_opened => raster.data = classification

C2_Witness ==
  /\ raster_opened
  /\ Len(raster.data) >= 2
  /\ \E k \in 1..Len(raster.data) : pixels[k][4] < 0 /\ raster.data[k] = 0
  /\ \E k \in 1..Len(raster.data) : pixels[k][4] > 0 /\ raster.data[k] # 0

\* the window of the first band read, which fixes the output shape
FirstWindow == windows[BandOrder(band_urls)[1]]

\* C3: the output width and height are both at most MAX_DIM, and both come from
\* the window's width and height by the one factor max(w/MAX_DIM, h/MAX_DIM, 1): a
\* window within MAX_DIM is kept as it is, a larger one has its longer side brought
\* to MAX_DIM (or one less, by rounding) and its aspect ratio kept to within a pixel.
C3_OutputWithinMaxDim ==
  out_width # -1 =>
    LET w == FirstWindow.width
        h == FirstWindow.height
    IN  /\ w >= 0 /\ h >= 0
        /\ out_width >= 0 /\ out_width <= MAX_DIM
        /\ out_height >= 0 /\ out_height <= MAX_DIM
        /\ (w <= MAX_DIM /\ h <= MAX_DIM) => (out_width = w /\ out_height = h)
        /\ (w > MAX_DIM \/ h > MAX_DIM) =>
             /\ Max(out_width, out_height) >= MAX_DIM - 1
             /\ out_width * h - out_height * w <= w
             /\ out_height * w - out_width * h <= h

C3_Witness ==
  /\ out_width = MAX_DIM
  /\ out_height = 359
  /\ FirstWindow.width = 3000
  /\ FirstWindow.height = 1078

\* the feature vector length of the run
FeatureLength == IF include_indices THEN 10 ELSE 6

\* C4: every feature vector of the training matrix and every pixel row has the
\* same length, 10 with include_indices and 6 without, whichever bands were
\* sampled for a point.
C4_FeatureLengthInvariant ==
  /\ \A k \in 1..Len(feature_matrix) : Len(feature_matrix[k]) = FeatureLength
  /\ \A k \in 1..Len(pixels) : Len(pixels[k]) = FeatureLength

C4_Witness ==
  /\ include_indices
  /\ Len(pixels) >= 1
  /\ Len(feature_matrix) >= 3
  /\ \E k \in 1..Len(feature_matrix) :
       feature_matrix[k][5] = 0 /\ feature_matrix[k][6] = 0 /\ Len(feature_matrix[k]) = 10
  /\ \E k \in 1..Len(feature_matrix) : feature_matrix[k][6] # 0

\* the primary item resolves fewer than 4 of the 6 target bands
FewBands == Cardinality(Bands \cap stac_item.assets) < MinBands

\* C5: the run fails with the insufficient-bands error exactly when the primary
\* item resolves fewer than 4 bands, and then no point has been sampled, no raster
\* opened and no fallback search made; when signing fails every asset keeps its
\* unsigned URL, so signing never causes the error.
C5_InsufficientBandsHaltsEarly ==
  /\ FailedWith("ValueError: Not enough bands found") =>
       /\ FewBands
       /\ ~sampled_any /\ ~rasters_read /\ ~searched_any /\ ~raster_opened
       /\ feature_matrix = <<>> /\ i = 0
  /\ (FewBands /\ stac_item.served /\ Len(argv) >= 1 /\ config_file = "ok" /\ pc = "exited")
       => FailedWith("ValueError: Not enough bands found")
  /\ (stac_item.blob /\ ~stac_item.sign_ok
        /\ pc \notin {"main", "load_config", "fetch_item", "resolve"} /\ Len(stdout) = 0) =>
       /\ DOMAIN band_urls = Bands \cap stac_item.assets
       /\ \A b \in DOMAIN band_urls : ~band_urls[b].signed /\ band_urls[b].href = b

C5_Witness ==
  /\ FailedWith("ValueError: Not enough bands found")
  /\ stac_item.blob /\ ~stac_item.sign_ok
  /\ Cardinality(DOMAIN band_urls) = 3

\* C6: a point is appended to the training set if and only if its final sample
\* has at least 4 bands; otherwise it is dropped and the loop goes on.  After every
\* iteration the matrix and the label list have equal length and have not shrunk.
C6_AppendedIffEnoughBands ==
  [][ /\ pc = "build" =>
           /\ EnoughBands(band_values) <=>
                (/\ Len(feature_matrix') = Len(feature_matrix) + 1
                 /\ labels' = Append(labels, training_data[i].label))
           /\ ~EnoughBands(band_values) =>
                (feature_matrix' = feature_matrix /\ labels' = labels)
           /\ pc' \in {"sample_primary", "train"}
      /\ Len(feature_matrix') = Len(labels')
      /\ Len(feature_matrix') >= Len(feature_matrix) ]_vars

\* C7 as stated: every failing run prints a record with an error and a traceback
\* and exits non-zero; a successful run prints the result and exits zero.
C7_EveryFailureHasTraceback ==
  pc = "exited" =>
    /\ Len(stdout) = 1
    /\ IF exit_code = 0
         THEN "success" \in DOMAIN stdout[1]
         ELSE {"error", "traceback"} \subseteq DOMAIN stdout[1]

\* C7, amended: every failing run prints one record with an error string and exits
\* with status 1; the record holds a traceback string exactly when the failure was
\* an exception (every failure but the missing config-path argument).  A successful
\* run prints the result record and does not exit non-zero.
C7_FailureRecord ==
  /\ pc # "exited" => (stdout = <<>> /\ exit_code = -1)
  /\ pc = "exited" =>
       /\ Len(stdout) = 1
       /\ exit_code \in {0, 1}
       /\ exit_code = 0 =>
            /\ DOMAIN stdout[1] = {"success", "width", "height", "training_samples",
                                   "classes_in_output", "classes_sampled"}
            /\ raster_opened
            /\ Len(argv) >= 1 /\ config_file = "ok"
       /\ exit_code = 1 =>
            /\ "error" \in DOMAIN stdout[1]
            /\ "success" \notin DOMAIN stdout[1]
            /\ ("traceback" \in DOMAIN stdout[1]) <=> (Len(argv) >= 1)
       /\ (Len(argv) < 1 \/ config_file # "ok" \/ ~raster_opened) => exit_code = 1

C7_Witness ==
  /\ pc = "exited"
  /\ exit_code = 1
  /\ config_file = "no_field"
  /\ DOMAIN stdout[1] = {"error", "traceback"}

\* C8: a primary item that resolves at least 4 of the 6 bands never makes the run
\* fail for the band it lacks, nir included.
C8_MissingBandNeverFatal ==
  (stac_item.served /\ ~FewBands) => ~FailedWith("KeyError: 'nir'")

\* C9: every value of the written raster is 0 or the label of an accepted training
\* point, so classes_in_output is a subset of classes_sampled and does not hold 0.
C9_OutputClassesAreSampled ==
  /\ raster_opened =>
       \A k \in 1..Len(raster.data) : raster.data[k] = 0 \/ raster.data[k] \in SeqRange(labels)
  /\ (pc = "exited" /\ exit_code = 0) =>
       /\ stdout[1].classes_in_output \subseteq stdout[1].classes_sampled
       /\ 0 \notin stdout[1].classes_in_output

\* C10: every clamped read window lies inside its band's raster.
C10_WindowInsideRaster ==
  \A b \in DOMAIN windows :
    /\ windows[b].col_off >= 0
    /\ windows[b].row_off >= 0
    /\ windows[b].width >= 0
    /\ windows[b].height >= 0
    /\ windows[b].col_off + windows[b].width <= scene[b].width
    /\ windows[b].row_off + windows[b].height <= scene[b].height

\* a step that calls search_stac_for_point: it is the first call for the point, the
\* point's primary sample was taken and has fewer than 4 bands, and whatever the
\* search returns the run stays in the sampling loop
SearchStep ==
  pc = "fallback" =>
    /\ searches = 0
    /\ \A b \in DOMAIN band_urls : <<"primary", b>> \in DOMAIN reads
    /\ Cardinality(DOMAIN band_values) < MinBands
    /\ pc' \in {"build", "sample_primary", "train"}
    /\ exit_code' = -1
    /\ stdout' = stdout

\* the search is called at most once per point, only after a short primary sample,
\* and its failure or empty result never leaves the loop
SearchOnceAndContained == [][SearchStep /\ searches' <= 1]_vars

\* no band raster of an image has been opened twice for the current point
NoBandReadTwice == \A k \in DOMAIN reads : reads[k] <= 1

\* the point keeps its short primary sample when the search finds nothing
SearchFoundNothing ==
  /\ pc = "build"
  /\ searches = 1
  /\ Cardinality(DOMAIN band_values) < MinBands
  /\ exit_code = -1

\* C11: for each training point the fallback search is called at most once and only
\* after the point's primary sample had fewer than 4 bands; a failed or empty search
\* is "no scene" and never propagates; and no band of any image is read more than
\* once for the same point.
C11_OneSearchNoRereads == [][SearchStep /\ searches' <= 1 /\ NoBandReadTwice']_vars

====
